---- MODULE Spec2Model ----
(***************************************************************************)
(* Model of hhparser.py (PokerOK / GGNetwork hand-history parser).         *)
(*                                                                         *)
(* Text lines are TLA+ strings and every regular expression of the source  *)
(* is a character-level matcher over them.  Python's None is the empty     *)
(* tuple << >> and a present value v is the one-element tuple << v >>.     *)
(* The model is restricted to ASCII text: the non-ASCII currency signs of  *)
(* RE_LIMIT and non-ASCII digits are left out.  The hand fields no checked *)
(* property reads (site, currency, btn_seat, parse_warnings) are left out  *)
(* of the hand record; the passes that compute them cannot raise.          *)
(***************************************************************************)
EXTENDS Integers, Sequences, FiniteSets, TLC

None == << >>
Some(v) == << v >>

(***************************************************************************)
(* Characters and Python string methods                                    *)
(***************************************************************************)
Digits == {"0", "1", "2", "3", "4", "5", "6", "7", "8", "9"}

DigitVal ==
  [c \in Digits |->
     CASE c = "0" -> 0 [] c = "1" -> 1 [] c = "2" -> 2 [] c = "3" -> 3
       [] c = "4" -> 4 [] c = "5" -> 5 [] c = "6" -> 6 [] c = "7" -> 7
       [] c = "8" -> 8 [] c = "9" -> 9]

UpperLetters ==
  {"A", "B", "C", "D", "E", "F", "G", "H", "I", "J", "K", "L", "M",
   "N", "O", "P", "Q", "R", "S", "T", "U", "V", "W", "X", "Y", "Z"}

LowerLetters ==
  {"a", "b", "c", "d", "e", "f", "g", "h", "i", "j", "k", "l", "m",
   "n", "o", "p", "q", "r", "s", "t", "u", "v", "w", "x", "y", "z"}

ToLower ==
  [c \in UpperLetters |->
     CASE c = "A" -> "a" [] c = "B" -> "b" [] c = "C" -> "c" [] c = "D" -> "d"
       [] c = "E" -> "e" [] c = "F" -> "f" [] c = "G" -> "g" [] c = "H" -> "h"
       [] c = "I" -> "i" [] c = "J" -> "j" [] c = "K" -> "k" [] c = "L" -> "l"
       [] c = "M" -> "m" [] c = "N" -> "n" [] c = "O" -> "o" [] c = "P" -> "p"
       [] c = "Q" -> "q" [] c = "R" -> "r" [] c = "S" -> "s" [] c = "T" -> "t"
       [] c = "U" -> "u" [] c = "V" -> "v" [] c = "W" -> "w" [] c = "X" -> "x"
       [] c = "Y" -> "y" [] c = "Z" -> "z"]

\* The character of s at position i, or "" when i is outside s.
Ch(s, i) == IF 1 <= i /\ i <= Len(s) THEN SubSeq(s, i, i) ELSE ""

\* s[i..j] (1-based, inclusive), "" when the range is empty.
Sub(s, i, j) == IF i <= j THEN SubSeq(s, i, j) ELSE ""

\* \s of the regular expressions, and the characters str.strip() removes.
SpaceChars == {" ", "\t", "\n", "\r", "\f"}
IsSpace(c) == c \in SpaceChars

\* \d
DigitChars == Digits

\* [\w\-]
IdChars == Digits \cup UpperLetters \cup LowerLetters \cup {"_", "-"}

\* [\d\.]
NumChars == Digits \cup {"."}
IsNumChar(c) == c \in NumChars

\* \*
StarChars == {"*"}

LowerCh(c) == IF c \in UpperLetters THEN ToLower[c] ELSE c

\* str.lower()
RECURSIVE lower(_)
lower(s) ==
  IF Len(s) = 0 THEN ""
  ELSE LowerCh(Ch(s, 1)) \o lower(Sub(s, 2, Len(s)))

\* str.replace(a, b) for one-character a
RECURSIVE replace(_, _, _)
replace(s, a, b) ==
  IF Len(s) = 0 THEN ""
  ELSE (IF Ch(s, 1) = a THEN b ELSE Ch(s, 1)) \o replace(Sub(s, 2, Len(s)), a, b)

\* str.strip()
strip(s) ==
  IF \A k \in 1..Len(s) : IsSpace(Ch(s, k)) THEN ""
  ELSE LET a == CHOOSE k \in 1..Len(s) :
                  /\ ~IsSpace(Ch(s, k))
                  /\ \A h \in 1..(k - 1) : IsSpace(Ch(s, h))
           b == CHOOSE k \in 1..Len(s) :
                  /\ ~IsSpace(Ch(s, k))
                  /\ \A h \in (k + 1)..Len(s) : IsSpace(Ch(s, h))
       IN  Sub(s, a, b)

\* str.rstrip('\n')
rstrip_nl(s) ==
  LET b == CHOOSE k \in 0..Len(s) :
             /\ (k = 0 \/ Ch(s, k) # "\n")
             /\ \A h \in (k + 1)..Len(s) : Ch(s, h) = "\n"
  IN  Sub(s, 1, b)

\* `lit in s` (case-sensitive substring test)
Contains(s, lit) ==
  \E i \in 1..(Len(s) - Len(lit) + 1) : SubSeq(s, i, i + Len(lit) - 1) = lit

(***************************************************************************)
(* Building blocks of the matchers (all patterns are compiled with re.I)   *)
(***************************************************************************)
\* The lower-case literal lit occurs in s at position i, ignoring case.
LitAt(s, i, lit) ==
  /\ i >= 1
  /\ i + Len(lit) - 1 <= Len(s)
  /\ \A k \in 1..Len(lit) : LowerCh(SubSeq(s, i + k - 1, i + k - 1)) = SubSeq(lit, k, k)

\* Position just after the longest run of characters of the class C that
\* starts at i (i itself when the run is empty): a greedy X* or X+.
RunEnd(s, i, C) ==
  IF i > Len(s) THEN i
  ELSE CHOOSE j \in i..(Len(s) + 1) :
         /\ \A k \in i..(j - 1) : Ch(s, k) \in C
         /\ (j = Len(s) + 1 \/ Ch(s, j) \notin C)

\* Line without its final newline: `.` does not match a newline and `$`
\* matches before a final one.
NoInnerNewline(s, i) == \A k \in i..(Len(s) - 1) : Ch(s, k) # "\n"

(***************************************************************************)
(* The regular expressions.  Each matcher returns a record whose field ok  *)
(* says whether the pattern matched and whose other fields are the named   *)
(* groups ("" when there is no match).                                     *)
(***************************************************************************)
Min(S) == CHOOSE x \in S : \A y \in S : x <= y
Max(S) == CHOOSE x \in S : \A y \in S : x >= y

\* RE_HAND_HEADER.match(line):  ^\s*Hand\s*#\s*(?P<hand_id>[\w\-]+).*$
RE_HAND_HEADER(line) ==
  LET i1 == RunEnd(line, 1, SpaceChars)
      i2 == RunEnd(line, i1 + 4, SpaceChars)
      i3 == RunEnd(line, i2 + 1, SpaceChars)
      i4 == RunEnd(line, i3, IdChars)
  IN  IF /\ LitAt(line, i1, "hand")
         /\ Ch(line, i2) = "#"
         /\ i4 > i3
         /\ NoInnerNewline(line, i4)
      THEN [ok |-> TRUE, hand_id |-> Sub(line, i3, i4 - 1)]
      ELSE [ok |-> FALSE, hand_id |-> ""]

\* End (exclusive) of (?P<game>Hold'?em|Omaha|Short\s*Deck) at j, 0 if none.
GameEnd(s, j) ==
  IF LitAt(s, j, "hold") /\ Ch(s, j + 4) = "'" /\ LitAt(s, j + 5, "em") THEN j + 7
  ELSE IF LitAt(s, j, "holdem") THEN j + 6
  ELSE IF LitAt(s, j, "omaha") THEN j + 5
  ELSE IF LitAt(s, j, "short") /\ LitAt(s, RunEnd(s, j + 5, SpaceChars), "deck")
       THEN RunEnd(s, j + 5, SpaceChars) + 4
  ELSE 0

\* End (exclusive) of the optional (?P<cur>USD|EUR|RUB|CNY|\$) at i.
CurEnd(s, i) ==
  IF LitAt(s, i, "usd") \/ LitAt(s, i, "eur") \/ LitAt(s, i, "rub") \/ LitAt(s, i, "cny")
  THEN i + 3
  ELSE IF Ch(s, i) = "$" THEN i + 1 ELSE i

\* \((?P<sb>[\d\.]+)/(?P<bb>[\d\.]+)\s*(?P<cur>...)?\) at p
StakesAt(s, p) ==
  LET e1 == RunEnd(s, p + 1, NumChars)
      e2 == RunEnd(s, e1 + 1, NumChars)
      e3 == RunEnd(s, e2, SpaceChars)
  IN  /\ Ch(s, p) = "("
      /\ e1 > p + 1
      /\ Ch(s, e1) = "/"
      /\ e2 > e1 + 1
      /\ (Ch(s, CurEnd(s, e3)) = ")" \/ Ch(s, e3) = ")")

\* The set of positions of "(" at which a match starting at i can end.
LimitStakes(s, i) ==
  LET j == RunEnd(s, i + 2, SpaceChars)
      g == GameEnd(s, j)
  IN  IF (LitAt(s, i, "nl") \/ LitAt(s, i, "pl") \/ LitAt(s, i, "fl")) /\ g # 0
      THEN {p \in g..Len(s) : StakesAt(s, p)}
      ELSE {}

\* RE_LIMIT.search(line)
RE_LIMIT(line) ==
  LET starts == {i \in 1..Len(line) : LimitStakes(line, i) # {}}
  IN  IF starts = {} THEN [ok |-> FALSE, game |-> "", sb |-> "", bb |-> ""]
      ELSE LET i  == Min(starts)
               j  == RunEnd(line, i + 2, SpaceChars)
               p  == Max(LimitStakes(line, i))
               e1 == RunEnd(line, p + 1, NumChars)
               e2 == RunEnd(line, e1 + 1, NumChars)
           IN  [ok |-> TRUE,
                game |-> Sub(line, j, GameEnd(line, j) - 1),
                sb |-> Sub(line, p + 1, e1 - 1),
                bb |-> Sub(line, e1 + 1, e2 - 1)]

\* RE_SEAT.match(line):
\*   ^Seat\s+(?P<seat>\d+):\s+(?P<name>.+?)\s+\((?P<stack>[\d\.]+)\)
RE_SEAT(line) ==
  LET s1 == RunEnd(line, 5, SpaceChars)
      d  == RunEnd(line, s1, DigitChars)
      n1 == RunEnd(line, d + 1, SpaceChars)
      V  == {p \in (d + 4)..Len(line) :
               /\ Ch(line, p) = "("
               /\ IsSpace(Ch(line, p - 1))
               /\ RunEnd(line, p + 1, NumChars) > p + 1
               /\ Ch(line, RunEnd(line, p + 1, NumChars)) = ")"}
  IN  IF /\ LitAt(line, 1, "seat")
         /\ s1 > 5
         /\ d > s1
         /\ Ch(line, d) = ":"
         /\ n1 > d + 1
         /\ V # {}
      THEN LET p == IF \E q \in V : q >= n1 + 2
                    THEN Min({q \in V : q >= n1 + 2})
                    ELSE Min(V)
           IN  [ok |-> TRUE,
                seat |-> Sub(line, s1, d - 1),
                stack |-> Sub(line, p + 1, RunEnd(line, p + 1, NumChars) - 1)]
      ELSE [ok |-> FALSE, seat |-> "", stack |-> ""]

\* End (exclusive) of the verb alternative of RE_ACTION at v, 0 if none:
\*   bets|checks|calls|folds|raises\s+to|all-?in|posts.*|straddle
VerbEnd(s, v) ==
  IF LitAt(s, v, "bets") THEN v + 4
  ELSE IF LitAt(s, v, "checks") THEN v + 6
  ELSE IF LitAt(s, v, "calls") THEN v + 5
  ELSE IF LitAt(s, v, "folds") THEN v + 5
  ELSE IF /\ LitAt(s, v, "raises")
          /\ RunEnd(s, v + 6, SpaceChars) > v + 6
          /\ LitAt(s, RunEnd(s, v + 6, SpaceChars), "to")
       THEN RunEnd(s, v + 6, SpaceChars) + 2
  ELSE IF LitAt(s, v, "all-in") THEN v + 6
  ELSE IF LitAt(s, v, "allin") THEN v + 5
  ELSE IF LitAt(s, v, "posts") THEN Len(s) + 1
  ELSE IF LitAt(s, v, "straddle") THEN v + 8
  ELSE 0

\* RE_ACTION.match(line):
\*   ^(?P<player>.+?):\s+(?P<verb>...)\s*(?P<amt>[\d\.]+)?
RE_ACTION(line) ==
  LET C == {c \in 2..Len(line) :
              /\ Ch(line, c) = ":"
              /\ IsSpace(Ch(line, c + 1))
              /\ VerbEnd(line, RunEnd(line, c + 1, SpaceChars)) # 0}
  IN  IF C = {} THEN [ok |-> FALSE, player |-> "", verb |-> "", amt |-> None]
      ELSE LET c == Min(C)
               v == RunEnd(line, c + 1, SpaceChars)
               e == VerbEnd(line, v)
               a == RunEnd(line, e, SpaceChars)
               n == RunEnd(line, a, NumChars)
           IN  [ok |-> TRUE,
                player |-> Sub(line, 1, c - 1),
                verb |-> Sub(line, v, e - 1),
                amt |-> IF n > a THEN Some(Sub(line, a, n - 1)) ELSE None]

\* RE_RETURN.match(line):
\*   Uncalled\s+bet\s+of\s+(?P<amt>[\d\.]+)\s+returned\s+to\s+(?P<player>.+)
RE_RETURN(line) ==
  LET a1 == RunEnd(line, 9, SpaceChars)
      a2 == RunEnd(line, a1 + 3, SpaceChars)
      a3 == RunEnd(line, a2 + 2, SpaceChars)
      n  == RunEnd(line, a3, NumChars)
      a4 == RunEnd(line, n, SpaceChars)
      a5 == RunEnd(line, a4 + 8, SpaceChars)
      a6 == RunEnd(line, a5 + 2, SpaceChars)
      \* \s+ gives one blank back to .+ when nothing follows the blanks
      p  == IF a6 <= Len(line) THEN a6 ELSE a6 - 1
  IN  IF /\ LitAt(line, 1, "uncalled") /\ a1 > 9
         /\ LitAt(line, a1, "bet") /\ a2 > a1 + 3
         /\ LitAt(line, a2, "of") /\ a3 > a2 + 2
         /\ n > a3 /\ a4 > n
         /\ LitAt(line, a4, "returned") /\ a5 > a4 + 8
         /\ LitAt(line, a5, "to") /\ a6 > a5 + 2
         /\ p > a5 + 2
      THEN [ok |-> TRUE, amt |-> Sub(line, a3, n - 1), player |-> Sub(line, p, Len(line))]
      ELSE [ok |-> FALSE, amt |-> "", player |-> ""]

\* [2-9TJQKA][cdhs] at i
CardAt(s, i) ==
  /\ lower(Ch(s, i)) \in {"2", "3", "4", "5", "6", "7", "8", "9", "t", "j", "q", "k", "a"}
  /\ lower(Ch(s, i + 1)) \in {"c", "d", "h", "s"}

\* RE_FLOP.search(line):
\*   ^\*+\s*FLOP\s*\*+\s*\[(?P<flop>card\s+card\s+card)\]
RE_FLOP(line) ==
  LET st1 == RunEnd(line, 1, StarChars)
      b   == RunEnd(line, st1, SpaceChars)
      c   == RunEnd(line, b + 4, SpaceChars)
      st2 == RunEnd(line, c, StarChars)
      d   == RunEnd(line, st2, SpaceChars)
      g1  == RunEnd(line, d + 3, SpaceChars)
      g2  == RunEnd(line, g1 + 2, SpaceChars)
  IN  IF /\ st1 > 1 /\ LitAt(line, b, "flop") /\ st2 > c
         /\ Ch(line, d) = "["
         /\ CardAt(line, d + 1) /\ g1 > d + 3
         /\ CardAt(line, g1) /\ g2 > g1 + 2
         /\ CardAt(line, g2) /\ Ch(line, g2 + 2) = "]"
      THEN [ok |-> TRUE, cards |-> Sub(line, d + 1, g2 + 1)]
      ELSE [ok |-> FALSE, cards |-> ""]

\* ^\*+\s*<word>\s*\*+.*\[(card)\]  with word TURN or RIVER (given in lower case)
StreetCard(line, word) ==
  LET st1 == RunEnd(line, 1, StarChars)
      b   == RunEnd(line, st1, SpaceChars)
      c   == RunEnd(line, b + Len(word), SpaceChars)
      P   == {p \in (c + 1)..Len(line) :
                Ch(line, p) = "[" /\ CardAt(line, p + 1) /\ Ch(line, p + 3) = "]"}
  IN  IF st1 > 1 /\ LitAt(line, b, word) /\ Ch(line, c) = "*" /\ P # {}
      THEN [ok |-> TRUE, cards |-> Sub(line, Max(P) + 1, Max(P) + 2)]
      ELSE [ok |-> FALSE, cards |-> ""]

\* RE_TURN.search(line)
RE_TURN(line) == StreetCard(line, "turn")

\* RE_RIVER.search(line)
RE_RIVER(line) == StreetCard(line, "river")

\* Total\s+pot\s+\(?(?P<pot>[\d\.]+)\)?\s*\|\s*Rake\s+(?P<rake>[\d\.]+) at i
PotAt(s, i) ==
  LET a  == RunEnd(s, i + 5, SpaceChars)
      b  == RunEnd(s, a + 3, SpaceChars)
      b2 == IF Ch(s, b) = "(" THEN b + 1 ELSE b
      n  == RunEnd(s, b2, NumChars)
      n2 == IF Ch(s, n) = ")" THEN n + 1 ELSE n
      c  == RunEnd(s, n2, SpaceChars)
      d  == RunEnd(s, c + 1, SpaceChars)
      e  == RunEnd(s, d + 4, SpaceChars)
      r  == RunEnd(s, e, NumChars)
  IN  IF /\ LitAt(s, i, "total") /\ a > i + 5
         /\ LitAt(s, a, "pot") /\ b > a + 3
         /\ n > b2
         /\ Ch(s, c) = "|"
         /\ LitAt(s, d, "rake") /\ e > d + 4
         /\ r > e
      THEN [ok |-> TRUE, pot |-> Sub(s, b2, n - 1), rake |-> Sub(s, e, r - 1)]
      ELSE [ok |-> FALSE, pot |-> "", rake |-> ""]

\* RE_SUMMARY_POT.search(line)
RE_SUMMARY_POT(line) ==
  LET starts == {i \in 1..Len(line) : LitAt(line, i, "total") /\ PotAt(line, i).ok}
  IN  IF starts = {} THEN [ok |-> FALSE, pot |-> "", rake |-> ""]
      ELSE PotAt(line, Min(starts))

\* RE_COLLECTED.search(line):  ^(?P<player>.+)\s+collected\s+(?P<amt>[\d\.]+)
RE_COLLECTED(line) ==
  LET Q == {q \in 3..Len(line) :
              /\ LitAt(line, q, "collected")
              /\ IsSpace(Ch(line, q - 1))
              /\ RunEnd(line, q + 9, SpaceChars) > q + 9
              /\ IsNumChar(Ch(line, RunEnd(line, q + 9, SpaceChars)))}
  IN  IF Q = {} THEN [ok |-> FALSE, player |-> "", amt |-> ""]
      ELSE LET q == Max(Q)
               e == RunEnd(line, q + 9, SpaceChars)
           IN  [ok |-> TRUE,
                player |-> Sub(line, 1, q - 2),
                amt |-> Sub(line, e, RunEnd(line, e, NumChars) - 1)]

(***************************************************************************)
(* Numbers.  A float is the exact decimal [m |-> mantissa, e |-> number of *)
(* fraction digits] with no trailing zero in the fraction, so that two     *)
(* values are equal exactly when the numbers are.                          *)
(***************************************************************************)
RECURSIVE DigitsValue(_)
DigitsValue(s) ==
  IF Len(s) = 0 THEN 0
  ELSE 10 * DigitsValue(Sub(s, 1, Len(s) - 1)) + DigitVal[Ch(s, Len(s))]

RECURSIVE Normalize(_)
Normalize(f) ==
  IF f.e > 0 /\ f.m % 10 = 0 THEN Normalize([m |-> f.m \div 10, e |-> f.e - 1]) ELSE f

\* float(s) for a string of digits and dots (all a [\d\.]+ group can hold):
\* None stands for ValueError.  Any other string is rejected as well; no
\* caller passes one.
PyFloat(s) ==
  LET dots == {k \in 1..Len(s) : Ch(s, k) = "."}
  IN  IF /\ \A k \in 1..Len(s) : IsNumChar(Ch(s, k))
         /\ Cardinality(dots) <= 1
         /\ Len(s) - Cardinality(dots) >= 1
      THEN IF dots = {}
           THEN Some([m |-> DigitsValue(s), e |-> 0])
           ELSE LET d == CHOOSE k \in dots : TRUE
                IN  Some(Normalize([m |-> DigitsValue(Sub(s, 1, d - 1) \o Sub(s, d + 1, Len(s))),
                                    e |-> Len(s) - d]))
      ELSE None

\* to_float_safe(val): val is None or Some(string); None.replace raises
\* AttributeError and float raises ValueError, both caught.
to_float_safe(val) ==
  IF val = None THEN None ELSE PyFloat(replace(val[1], ",", "."))

Neg(f) == [m |-> 0 - f.m, e |-> f.e]

(***************************************************************************)
(* split_into_hands: one iteration of the generator's loop.                *)
(***************************************************************************)
\* SplitStep without the reset of the accumulator after a yield.
SplitStepNoReset(current, line) ==
  LET flush == RE_HAND_HEADER(line).ok /\ current # << >>
  IN  [out |-> IF flush THEN Some(current) ELSE None,
       current |-> Append(current, rstrip_nl(line))]

\* The body of `for line in lines` applied to the accumulator: out is the
\* block yielded by this iteration (None if none), current the accumulator
\* after it.
SplitStep(current, line) ==
  LET flush == RE_HAND_HEADER(line).ok /\ current # << >>
  IN  [out |-> IF flush THEN Some(current) ELSE None,
       current |-> Append(IF flush THEN << >> ELSE current, rstrip_nl(line))]

\* The flush after the loop.
SplitFlush(current) == IF current # << >> THEN Some(current) ELSE None

(***************************************************************************)
(* parse_hand                                                              *)
(***************************************************************************)
\* STREET_MARKERS in the dict's iteration (insertion) order.
STREET_MARKERS ==
  << << "*** HOLE CARDS ***", "preflop" >>,
     << "*** FLOP ***", "flop" >>,
     << "*** TURN ***", "turn" >>,
     << "*** RIVER ***", "river" >> >>

\* NextStreet with the last marker of the table winning instead of the first.
NextStreetLast(line, street) ==
  LET hits == {k \in 1..Len(STREET_MARKERS) : Contains(line, STREET_MARKERS[k][1])}
  IN  IF hits = {} THEN street ELSE STREET_MARKERS[Max(hits)][2]

\* for marker, sname in STREET_MARKERS.items():
\*     if marker in line: street = sname; break
NextStreet(line, street) ==
  LET hits == {k \in 1..Len(STREET_MARKERS) : Contains(line, STREET_MARKERS[k][1])}
  IN  IF hits = {} THEN street ELSE STREET_MARKERS[Min(hits)][2]

\* AppendAction inserting at the front of the list.
PrependAction(actions, act) == << act >> \o actions

\* actions.append(act)
AppendAction(actions, act) == Append(actions, act)

\* The value of the 'amount' key of a return_uncalled record:
\*   -to_float_safe(amt) if amt else None
\* raises TypeError when to_float_safe returns None.
ReturnAmount(amt) ==
  LET Negated(f) == IF f = None
                    THEN [raised |-> TRUE, value |-> None]
                    ELSE [raised |-> FALSE, value |-> Some(Neg(f[1]))]
  IN  IF amt # "" THEN Negated(to_float_safe(Some(amt)))
      ELSE [raised |-> FALSE, value |-> None]

\* Step 4 of parse_hand from line i on.  The field lineno of an action record
\* is the index of the line that produced it; the code's dict has no such key,
\* it is recorded here so that properties can refer to the source line.
RECURSIVE ActionPass(_, _, _, _, _)
ActionPass(lines, i, hand_id, street, actions) ==
  LET \* if ma: actions.append(act)
      AfterAction(ma, st) ==
        IF ma.ok
        THEN AppendAction(actions,
               [hand_id |-> hand_id,
                street |-> st,
                player |-> strip(ma.player),
                action |-> strip(lower(ma.verb)),
                amount |-> to_float_safe(ma.amt),
                lineno |-> i])
        ELSE actions
      \* the append of the return_uncalled record, then the next line
      AfterAmount(mr, amt, st, a1) ==
        IF amt.raised
        THEN [raised |-> TRUE, actions |-> a1]
        ELSE ActionPass(lines, i + 1, hand_id, st,
               AppendAction(a1,
                 [hand_id |-> hand_id,
                  street |-> st,
                  player |-> strip(mr.player),
                  action |-> "return_uncalled",
                  amount |-> amt.value,
                  lineno |-> i]))
      \* if mr: ...
      AfterReturn(mr, st, a1) ==
        IF mr.ok
        THEN AfterAmount(mr, ReturnAmount(mr.amt), st, a1)
        ELSE ActionPass(lines, i + 1, hand_id, st, a1)
      Line(line, st) == AfterReturn(RE_RETURN(line), st, AfterAction(RE_ACTION(line), st))
  IN  IF i > Len(lines) THEN [raised |-> FALSE, actions |-> actions]
      ELSE Line(lines[i], NextStreet(lines[i], street))

\* The match records of the lines of the block on which a matcher succeeds,
\* in line order.
Matches(lines, R(_)) ==
  SelectSeq([k \in 1..Len(lines) |-> R(lines[k])], LAMBDA m : m.ok)

\* Step 1: the hand id of the first header line, None if there is none.
HandId(lines) ==
  LET First(ms) == IF Len(ms) = 0 THEN None ELSE Some(ms[1].hand_id)
  IN  First(Matches(lines, RE_HAND_HEADER))

\* Step 2: game and stakes of the first line matching RE_LIMIT.
Limit(lines) ==
  LET First(ms) ==
        IF Len(ms) = 0
        THEN [game |-> None, stakes_sb |-> None, stakes_bb |-> None]
        ELSE [game |-> Some(replace(lower(ms[1].game), "'", "")),
              stakes_sb |-> to_float_safe(Some(ms[1].sb)),
              stakes_bb |-> to_float_safe(Some(ms[1].bb))]
  IN  First(Matches(lines, RE_LIMIT))

\* Step 3: the list `players`, one entry per line matching RE_SEAT.
Players(lines) ==
  LET Entries(seats) ==
        [k \in 1..Len(seats) |->
           [seat |-> DigitsValue(seats[k].seat),
            stack |-> to_float_safe(Some(seats[k].stack))]]
  IN  Entries(Matches(lines, RE_SEAT))

\* group of the last line on which the matcher succeeds, "" if none
LastCards(lines, R(_)) ==
  LET Last(ms) == IF Len(ms) = 0 THEN "" ELSE ms[Len(ms)].cards
  IN  Last(Matches(lines, R))

\* '|'.join(parts)
RECURSIVE Join(_)
Join(parts) ==
  IF Len(parts) = 0 THEN ""
  ELSE IF Len(parts) = 1 THEN parts[1]
  ELSE parts[1] \o "|" \o Join(Tail(parts))

\* Step 5: the board string, from the last flop, turn and river lines.
Board(lines) ==
  Join(SelectSeq(<< LastCards(lines, RE_FLOP),
                    LastCards(lines, RE_TURN),
                    LastCards(lines, RE_RIVER) >>,
                 LAMBDA part : part # ""))

\* Step 6: pot and rake of the last summary line, and the winners list
\* (the code stores the list as its JSON text in winner_json).
Summary(lines) ==
  LET Fields(pots, cols) ==
        [pot_total |-> IF Len(pots) = 0 THEN None
                       ELSE to_float_safe(Some(pots[Len(pots)].pot)),
         rake |-> IF Len(pots) = 0 THEN None
                  ELSE to_float_safe(Some(pots[Len(pots)].rake)),
         winners |-> [k \in 1..Len(cols) |->
                        [player |-> strip(cols[k].player),
                         amount |-> to_float_safe(Some(cols[k].amt))]]]
  IN  Fields(Matches(lines, RE_SUMMARY_POT), Matches(lines, RE_COLLECTED))

\* Failure handing back the actions collected before the exception.
FailureLeaks(actions) == [hand |-> None, actions |-> actions]

\* The `except Exception` branch: return None, []
Failure(actions) == [hand |-> None, actions |-> << >>]

\* parse_hand(lines): hand is None or Some(hand record).
parse_hand(lines) ==
  LET Result(hand_id, lim, players, pass, sum) ==
        IF pass.raised THEN Failure(pass.actions)
        ELSE IF hand_id = None THEN Failure(pass.actions)
        ELSE [hand |-> Some([hand_id |-> hand_id,
                             game |-> lim.game,
                             stakes_sb |-> lim.stakes_sb,
                             stakes_bb |-> lim.stakes_bb,
                             players |-> IF Len(players) > 0 THEN Some(Len(players))
                                         ELSE None,
                             table_size |-> IF Len(players) > 0 THEN Some(Len(players))
                                            ELSE None,
                             board |-> Board(lines),
                             pot_total |-> sum.pot_total,
                             rake |-> sum.rake,
                             winners |-> sum.winners]),
              actions |-> pass.actions]
      Steps(hand_id) ==
        Result(hand_id, Limit(lines), Players(lines),
               ActionPass(lines, 1, hand_id, "preflop", << >>), Summary(lines))
  IN  Steps(HandId(lines))

(***************************************************************************)
(* process_input: the Batch Filter                                         *)
(***************************************************************************)
\* Python truthiness of an optional int (None and 0 are false)
TruthyInt(v) == v # None /\ v[1] # 0

\* Python truthiness of an optional list (None and [] are false)
TruthyList(v) == v # None /\ Len(v[1]) > 0

\* hand['game'] not in filters['game']
NotInList(x, list) == x = None \/ \A k \in 1..Len(list) : list[k] # x[1]

\* The three `if ... continue` tests applied to a parsed hand: "skip" for
\* continue, "keep" for falling through to the appends, "raise" for the
\* TypeError of comparing None with an int (hand.get('players', 0) returns
\* the None stored under the key, not the default).
FilterOutcome(hand, f) ==
  IF TruthyList(f.game) /\ NotInList(hand.game, f.game[1]) THEN "skip"
  ELSE IF TruthyInt(f.min_players) /\ hand.players = None THEN "raise"
  ELSE IF TruthyInt(f.min_players) /\ hand.players[1] < f.min_players[1] THEN "skip"
  ELSE IF TruthyInt(f.max_players) /\ hand.players = None THEN "raise"
  ELSE IF TruthyInt(f.max_players) /\ hand.players[1] > f.max_players[1] THEN "skip"
  ELSE "keep"

\* all_actions.extend(actions)
ExtendActions(all, actions) == all \o actions

(***************************************************************************)
(* Bounds and input sets                                                   *)
(***************************************************************************)
\* longest input of the segmenter runs, in lines
MaxSegLines == 4
\* most lines after the optional header line of a block given to parse_hand
MaxBodyLen == 4
\* most paragraphs of a batch input
MaxParagraphs == 3
\* largest max_workers
MaxWorkers == 2

\* All sequences over S of length at most n
SeqsUpTo(S, n) == UNION {[1..k -> S] : k \in 0..n}

\* Lines of the segmenter runs.  Only the last line of a file can lack its
\* newline.
SegLines == {"Hand #1\n", " hand #2 x\n", "B: folds\n", "B: folds", "Hand #3"}

SegInputs ==
  {in \in SeqsUpTo(SegLines, MaxSegLines) :
     \A k \in 1..(Len(in) - 1) : Ch(in[k], Len(in[k])) = "\n"}

\* Blocks given to parse_hand: like the blocks the segmenter yields, a block
\* has a header line first or no header line at all.  The body lines come
\* from one of the families below.
HeaderLine == "Hand #1"

StreetLines ==
  {"*** HOLE CARDS ***", "*** FLOP *** [Ah Kd 7s]", "*** TURN *** [Td]",
   "*** RIVER *** *** TURN ***", "B: checks"}

BoardLines ==
  {"*** FLOP *** [Ah Kd 7s]", "*** FLOP *** [Ah Kd]", "*** TURN *** [Td]",
   "*** RIVER *** [2c]", "*** TURN *** [Ah Kd 7s] [3d]"}

ActionLines ==
  {"B: bets 5", "A: folds", "Uncalled bet of 5 returned to B",
   "Uncalled bet of 5 returned to B: folds", "*** FLOP *** [Ah Kd 7s]"}

AmountLines ==
  {"B: bets 1.2.3", "B: raises to 0,5", "Uncalled bet of 1.2.3 returned to B",
   "Uncalled bet of 0.10 returned to B", "Seat 1: B (5)"}

NumberLines ==
  {"NL Omaha (0.0.1/2)", "Seat 1: B (1.2.3)", "Total pot 1.2.3 | Rake ..",
   "Total pot 0.12 | Rake 0.00", "B collected 1.2.3"}

LineFamilies == {StreetLines, BoardLines, ActionLines, AmountLines, NumberLines}

HandBlocks ==
  UNION {{prefix \o body : prefix \in {<< >>, << HeaderLine >>},
                           body \in SeqsUpTo(F, MaxBodyLen)} : F \in LineFamilies}

\* Batch inputs: a file is a concatenation of paragraphs.
Paragraphs ==
  {<< "B: checks\n" >>,
   << "Hand #1\n", "B: folds\n" >>,
   << "Hand #2\n", "PL Omaha (1/2)\n", "Seat 1: B (5)\n", "B: bets 5\n", "B: folds\n" >>,
   << "Hand #3\n", "B: calls 1\n", "Uncalled bet of . returned to B\n" >>}

RECURSIVE Concat(_)
Concat(seqs) == IF Len(seqs) = 0 THEN << >> ELSE Head(seqs) \o Concat(Tail(seqs))

BatchInputs == {Concat(ps) : ps \in SeqsUpTo(Paragraphs, MaxParagraphs)}

NoFilters == [game |-> None, min_players |-> None, max_players |-> None]

\* No key, each key alone with a positive value and with an empty or zero
\* value (which Python takes for false), and all keys together.
FilterConfigs ==
  {NoFilters,
   [NoFilters EXCEPT !.game = Some(<< "omaha" >>)],
   [NoFilters EXCEPT !.min_players = Some(2)],
   [NoFilters EXCEPT !.max_players = Some(1)],
   [NoFilters EXCEPT !.game = Some(<< >>)],
   [NoFilters EXCEPT !.min_players = Some(0)],
   [NoFilters EXCEPT !.max_players = Some(0)],
   [game |-> Some(<< "omaha" >>), min_players |-> Some(2), max_players |-> Some(1)]}

(***************************************************************************)
(* State                                                                   *)
(***************************************************************************)
VARIABLES
  text_lines,   \* the lines given to split_into_hands
  pos,          \* number of lines the generator has consumed
  current,      \* the generator's accumulator
  gen_done,     \* the generator has run to its end
  yielded,      \* the blocks yielded so far, in order
  hand_lines,   \* argument of the parse_hand call under study
  ret,          \* its return value
  filters,      \* process_input's filters
  max_workers,  \* process_input's max_workers
  futures,      \* the futures list: block, task state, result
  fi,           \* number of futures the result loop has consumed
  all_hands,
  all_actions,
  kept,         \* indices of the futures whose hand was appended (history)
  pc            \* position of the caller

vars == << text_lines, pos, current, gen_done, yielded, hand_lines, ret, filters,
           max_workers, futures, fi, all_hands, all_actions, kept, pc >>

genVars == << pos, current, gen_done, yielded >>
handVars == << hand_lines, ret >>
batchVars == << filters, max_workers, futures, fi, all_hands, all_actions, kept >>

NoResult == [hand |-> None, actions |-> << >>]

InitCommon ==
  /\ pos = 0 /\ current = << >> /\ gen_done = FALSE /\ yielded = << >>
  /\ ret = NoResult
  /\ futures = << >> /\ fi = 0 /\ all_hands = << >> /\ all_actions = << >>
  /\ kept = << >>

(***************************************************************************)
(* split_into_hands run on its own                                         *)
(***************************************************************************)
InitSeg ==
  /\ InitCommon
  /\ text_lines \in SegInputs
  /\ hand_lines = << >>
  /\ filters = NoFilters /\ max_workers = 1
  /\ pc = "split"

\* one iteration of `for line in lines`
SegLine ==
  /\ pc = "split" /\ ~gen_done /\ pos < Len(text_lines)
  /\ LET r == SplitStep(current, text_lines[pos + 1])
     IN  /\ current' = r.current
         /\ yielded' = IF r.out = None THEN yielded ELSE Append(yielded, r.out[1])
  /\ pos' = pos + 1
  /\ UNCHANGED << text_lines, gen_done, handVars, batchVars, pc >>

\* the code after the loop
SegFlush ==
  /\ pc = "split" /\ ~gen_done /\ pos = Len(text_lines)
  /\ yielded' = IF SplitFlush(current) = None THEN yielded
                ELSE Append(yielded, SplitFlush(current)[1])
  /\ gen_done' = TRUE
  /\ UNCHANGED << text_lines, pos, current, handVars, batchVars, pc >>

NextSeg == SegLine \/ SegFlush

SpecSeg == InitSeg /\ [][NextSeg]_vars

(***************************************************************************)
(* parse_hand run on its own                                               *)
(***************************************************************************)
InitHand ==
  /\ InitCommon
  /\ text_lines = << >>
  /\ hand_lines \in HandBlocks
  /\ filters = NoFilters /\ max_workers = 1
  /\ pc = "call"

ParseHand ==
  /\ pc = "call"
  /\ ret' = parse_hand(hand_lines)
  /\ pc' = "parsed"
  /\ UNCHANGED << text_lines, genVars, hand_lines, batchVars >>

NextHand == ParseHand

SpecHand == InitHand /\ [][NextHand]_vars

(***************************************************************************)
(* process_input                                                           *)
(***************************************************************************)
\* Runs the generator from (p, cur) to its next yield or to its end.
RECURSIVE NextYield(_, _, _)
NextYield(lines, p, cur) ==
  IF p = Len(lines)
  THEN [pos |-> p, current |-> cur, out |-> SplitFlush(cur), done |-> TRUE]
  ELSE LET r == SplitStep(cur, lines[p + 1])
       IN  IF r.out # None
           THEN [pos |-> p + 1, current |-> r.current, out |-> r.out, done |-> FALSE]
           ELSE NextYield(lines, p + 1, r.current)

InitBatch ==
  /\ InitCommon
  /\ text_lines \in BatchInputs
  /\ hand_lines = << >>
  /\ filters \in FilterConfigs
  \* one thread and the largest pool: a schedule of a smaller pool is also a
  \* schedule of a larger one
  /\ max_workers \in {1, MaxWorkers}
  /\ pc = "submit"

\* for hand_lines in split_into_hands(text_lines):
\*     futures.append(pool.submit(parse_hand, hand_lines))
Submit ==
  /\ pc = "submit" /\ ~gen_done
  /\ LET y == NextYield(text_lines, pos, current)
     IN  /\ pos' = y.pos
         /\ current' = y.current
         /\ gen_done' = y.done
         /\ yielded' = IF y.out = None THEN yielded ELSE Append(yielded, y.out[1])
         /\ futures' = IF y.out = None THEN futures
                       ELSE Append(futures, [lines |-> y.out[1], state |-> "queued",
                                             result |-> NoResult])
  /\ UNCHANGED << text_lines, handVars, filters, max_workers, fi, all_hands,
                  all_actions, kept, pc >>

\* the submission loop ends, the result loop begins
StartCollect ==
  /\ pc = "submit" /\ gen_done
  /\ pc' = "collect"
  /\ UNCHANGED << text_lines, genVars, handVars, batchVars >>

Running == {i \in 1..Len(futures) : futures[i].state = "running"}
Queued == {i \in 1..Len(futures) : futures[i].state = "queued"}

\* a free worker thread takes the oldest queued work item
TaskStart ==
  /\ Queued # {}
  /\ Cardinality(Running) < max_workers
  /\ futures' = [futures EXCEPT ![Min(Queued)].state = "running"]
  /\ UNCHANGED << text_lines, genVars, handVars, filters, max_workers, fi,
                  all_hands, all_actions, kept, pc >>

\* a worker thread completes parse_hand and sets the future's result
TaskFinish(i) ==
  /\ futures[i].state = "running"
  /\ futures' = [futures EXCEPT ![i].state = "done",
                                ![i].result = parse_hand(futures[i].lines)]
  /\ UNCHANGED << text_lines, genVars, handVars, filters, max_workers, fi,
                  all_hands, all_actions, kept, pc >>

\* Collect reading the future without waiting for the task to be done.
CollectNoWait ==
  /\ pc = "collect" /\ fi < Len(futures)
  /\ LET r == futures[fi + 1].result
         o == IF r.hand = None THEN "skip" ELSE FilterOutcome(r.hand[1], filters)
     IN  /\ all_hands' = IF o = "keep" THEN Append(all_hands, r.hand[1]) ELSE all_hands
         /\ all_actions' = IF o = "keep" THEN ExtendActions(all_actions, r.actions)
                           ELSE all_actions
         /\ kept' = IF o = "keep" THEN Append(kept, fi + 1) ELSE kept
         /\ pc' = IF o = "raise" THEN "unwinding" ELSE pc
  /\ fi' = fi + 1
  /\ UNCHANGED << text_lines, genVars, handVars, filters, max_workers, futures >>

\* one iteration of `for fut in futures`; fut.result() blocks until done
Collect ==
  /\ pc = "collect" /\ fi < Len(futures)
  /\ futures[fi + 1].state = "done"
  /\ LET r == futures[fi + 1].result
         o == IF r.hand = None THEN "skip" ELSE FilterOutcome(r.hand[1], filters)
     IN  /\ all_hands' = IF o = "keep" THEN Append(all_hands, r.hand[1]) ELSE all_hands
         /\ all_actions' = IF o = "keep" THEN ExtendActions(all_actions, r.actions)
                           ELSE all_actions
         /\ kept' = IF o = "keep" THEN Append(kept, fi + 1) ELSE kept
         /\ pc' = IF o = "raise" THEN "unwinding" ELSE pc
  /\ fi' = fi + 1
  /\ UNCHANGED << text_lines, genVars, handVars, filters, max_workers, futures >>

\* the with block ends normally (every future is done) and the function returns
Return ==
  /\ pc = "collect" /\ fi = Len(futures)
  /\ pc' = "returned"
  /\ UNCHANGED << text_lines, genVars, handVars, batchVars >>

\* an exception leaves the with block: shutdown(wait=True) waits for every
\* work item, then the exception leaves process_input
Unwind ==
  /\ pc = "unwinding"
  /\ \A i \in 1..Len(futures) : futures[i].state = "done"
  /\ pc' = "raised"
  /\ UNCHANGED << text_lines, genVars, handVars, batchVars >>

NextBatch ==
  \/ Submit
  \/ StartCollect
  \/ TaskStart
  \/ \E i \in 1..Len(futures) : TaskFinish(i)
  \/ Collect
  \/ Return
  \/ Unwind

SpecBatch == InitBatch /\ [][NextBatch]_vars

(***************************************************************************)
(* Properties                                                              *)
(***************************************************************************)
IsHeaderLine(line) == RE_HAND_HEADER(line).ok

HasHeader(block) == \E k \in 1..Len(block) : IsHeaderLine(block[k])

InKept(i) == \E k \in 1..Len(kept) : kept[k] = i

StreetRank(street) ==
  CASE street = "preflop" -> 0 [] street = "flop" -> 1
    [] street = "turn" -> 2 [] street = "river" -> 3

\* Number of cards in a board string (cards are separated by blanks or "|")
IsBoardSep(c) == IsSpace(c) \/ c = "|"

CardCount(board) ==
  Cardinality({i \in 1..Len(board) :
                 /\ ~IsBoardSep(Ch(board, i))
                 /\ (i = 1 \/ IsBoardSep(Ch(board, i - 1)))})

\* list(split_into_hands(lines))
RECURSIVE BlockSeq(_, _, _)
BlockSeq(lines, p, cur) ==
  LET y == NextYield(lines, p, cur)
  IN  IF y.out = None THEN << >>
      ELSE << y.out[1] >> \o (IF y.done THEN << >> ELSE BlockSeq(lines, y.pos, y.current))

\* The blocks parsed and filtered one after the other, without a pool.
RECURSIVE SequentialRun(_, _, _, _, _)
SequentialRun(blocks, f, k, hands, actions) ==
  IF k > Len(blocks) THEN [status |-> "returned", hands |-> hands, actions |-> actions]
  ELSE LET r == parse_hand(blocks[k])
           o == IF r.hand = None THEN "skip" ELSE FilterOutcome(r.hand[1], f)
       IN  IF o = "raise"
           THEN [status |-> "raised", hands |-> hands, actions |-> actions]
           ELSE IF o = "keep"
           THEN SequentialRun(blocks, f, k + 1, Append(hands, r.hand[1]), actions \o r.actions)
           ELSE SequentialRun(blocks, f, k + 1, hands, actions)

\* C1: a block with no header line parses to no hand and no actions, and
\* every record of the action output carries the hand_id of a record of the
\* hand output.
C1_AllOrNothing ==
  /\ \A i \in 1..Len(futures) :
       (futures[i].state = "done" /\ ~HasHeader(futures[i].lines))
         => (futures[i].result.hand = None /\ futures[i].result.actions = << >>)
  /\ \A k \in 1..Len(all_actions) :
       \E j \in 1..Len(all_hands) : all_hands[j].hand_id = all_actions[k].hand_id

\* process_input has returned actions although a headerless block with an
\* action line failed and a parsed hand with actions was filtered out
C1_Witness ==
  /\ pc = "returned"
  /\ Len(all_actions) > 0
  /\ \E i \in 1..Len(futures) :
       ~HasHeader(futures[i].lines) /\ \E k \in 1..Len(futures[i].lines) :
                                          RE_ACTION(futures[i].lines[k]).ok
  /\ \E i \in 1..Len(futures) :
       /\ futures[i].result.hand # None
       /\ Len(futures[i].result.actions) > 0
       /\ ~InKept(i)

\* C2: process_input never raises because of block content, and every block
\* that parses and passes the filters has its hand in the output.
C2_FailuresLocal ==
  /\ pc \notin {"unwinding", "raised"}
  /\ pc = "returned" =>
       \A i \in 1..Len(futures) :
         (futures[i].result.hand # None
            /\ FilterOutcome(futures[i].result.hand[1], filters) = "keep") => InKept(i)

\* C3: a block with a header line is never failed by parse_hand, whatever
\* numeric tokens it holds.
C3_NumericNeverEscalates ==
  (pc = "parsed" /\ HasHeader(hand_lines)) => ret.hand # None

\* C4: the board of a returned hand holds 0, 3, 4 or 5 cards.
C4_BoardCardinality ==
  (pc = "parsed" /\ ret.hand # None) => CardCount(ret.hand[1].board) \in {0, 3, 4, 5}

\* The predicates of the claim: a key is configured when its value is not
\* None; a hand without a player count fails a configured bound.
ClaimPasses(hand, f) ==
  /\ f.game = None \/ ~NotInList(hand.game, f.game[1])
  /\ f.min_players = None \/ (hand.players # None /\ hand.players[1] >= f.min_players[1])
  /\ f.max_players = None \/ (hand.players # None /\ hand.players[1] <= f.max_players[1])

\* C5: a parsed hand is kept exactly when it satisfies every configured
\* predicate (and process_input excludes a hand rather than raising).
C5_FilterConjunction ==
  /\ pc \notin {"unwinding", "raised"}
  /\ \A i \in 1..fi :
       futures[i].result.hand # None
         => (InKept(i) <=> ClaimPasses(futures[i].result.hand[1], filters))

StripAll(lines) == [k \in 1..Len(lines) |-> rstrip_nl(lines[k])]

FirstHeader(lines) ==
  IF HasHeader(lines) THEN Min({k \in 1..Len(lines) : IsHeaderLine(lines[k])})
  ELSE Len(lines) + 1

\* C6 as stated: every yielded block starts with a header line and holds no
\* other; the blocks concatenated are the input from the first header on.
C6_SegmenterShape ==
  /\ \A b \in 1..Len(yielded) :
       /\ Len(yielded[b]) > 0
       /\ IsHeaderLine(yielded[b][1])
       /\ \A k \in 2..Len(yielded[b]) : ~IsHeaderLine(yielded[b][k])
  /\ gen_done =>
       Concat(yielded) = SubSeq(StripAll(text_lines), FirstHeader(text_lines), Len(text_lines))

\* C6 amended: no yielded block holds a header line after its first line,
\* every block but the first yielded starts with a header line, and the
\* blocks concatenated are the whole input (lines without their newlines),
\* so the lines before the first header line are yielded as a first block.
C6_SegmenterShapeAmended ==
  /\ \A b \in 1..Len(yielded) :
       /\ Len(yielded[b]) > 0
       /\ b > 1 => IsHeaderLine(yielded[b][1])
       /\ \A k \in 2..Len(yielded[b]) : ~IsHeaderLine(yielded[b][k])
  /\ ~gen_done => Concat(yielded) \o current = SubSeq(StripAll(text_lines), 1, pos)
  /\ gen_done => Concat(yielded) = StripAll(text_lines)

\* the generator has finished an input that starts before its first header
C6_Witness ==
  /\ gen_done
  /\ Len(yielded) >= 2
  /\ ~IsHeaderLine(yielded[1][1])
  /\ IsHeaderLine(yielded[2][1])

\* C7: the action records of a hand follow the order of their source lines,
\* and the batch action output is the concatenation, in hand order, of the
\* action lists of the kept hands.
C7_OrderPreserved ==
  /\ \A i \in 1..Len(futures) :
       LET a == futures[i].result.actions
       IN  /\ \A j \in 1..Len(a) : \A k \in 1..Len(a) : j < k => a[j].lineno <= a[k].lineno
           /\ \A j \in 1..Len(a) :
                IF a[j].action = "return_uncalled"
                THEN RE_RETURN(futures[i].lines[a[j].lineno]).ok
                ELSE RE_ACTION(futures[i].lines[a[j].lineno]).ok
  /\ \A j \in 1..Len(kept) : \A k \in 1..Len(kept) : j < k => kept[j] < kept[k]
  /\ all_actions = Concat([k \in 1..Len(kept) |-> futures[kept[k]].result.actions])

\* two hands with several actions each have been appended
C7_Witness ==
  /\ pc = "returned"
  /\ Len(kept) >= 2
  /\ \A k \in 1..Len(kept) : Len(futures[kept[k]].result.actions) >= 2
  /\ \E k \in 1..Len(kept) :
       futures[kept[k]].result.actions[1].lineno < futures[kept[k]].result.actions[2].lineno

\* C8: whatever the worker count and the interleaving of the tasks, every
\* task completes and process_input ends as a run without a pool does, with
\* the same hands and actions.
C8_SchedulingIndependent ==
  pc \in {"returned", "raised"} =>
    LET s == SequentialRun(BlockSeq(text_lines, 0, << >>), filters, 1, << >>, << >>)
    IN  /\ \A i \in 1..Len(futures) :
             futures[i].state = "done" /\ futures[i].lines = yielded[i]
        /\ Len(futures) = Len(yielded)
        /\ s.status = pc
        /\ s.hands = all_hands
        /\ s.actions = all_actions

\* a later task has completed (here with a failure) while an earlier one is
\* still running on another worker
C8_Witness ==
  \E i \in 1..Len(futures) : \E j \in 1..Len(futures) :
    /\ i < j
    /\ futures[i].state = "running"
    /\ futures[j].state = "done"
    /\ futures[j].result.hand = None

\* C9: no line yields more than one action record.
C9_OneActionPerLine ==
  pc = "parsed" =>
    /\ \A j \in 1..Len(ret.actions) : \A k \in 1..Len(ret.actions) :
         j # k => ret.actions[j].lineno # ret.actions[k].lineno
    /\ Len(ret.actions) <= Len(hand_lines)

NonDecreasingStreets(actions) ==
  \A j \in 1..Len(actions) : \A k \in 1..Len(actions) :
    j < k => StreetRank(actions[j].street) <= StreetRank(actions[k].street)

\* C10 as stated: along the action list the street tags never go backwards.
C10_StreetsNeverGoBack ==
  pc = "parsed" => NonDecreasingStreets(ret.actions)

HasMarker(line) == \E k \in 1..Len(STREET_MARKERS) : Contains(line, STREET_MARKERS[k][1])

\* street of the first marker, in table order, that the line contains
FirstMarkerStreet(line) ==
  STREET_MARKERS[Min({k \in 1..Len(STREET_MARKERS) : Contains(line, STREET_MARKERS[k][1])})][2]

\* the marker lines of the block appear in street order
MarkersInOrder(lines) ==
  \A i \in 1..Len(lines) : \A j \in 1..Len(lines) :
    (i < j /\ HasMarker(lines[i]) /\ HasMarker(lines[j]))
      => StreetRank(FirstMarkerStreet(lines[i])) <= StreetRank(FirstMarkerStreet(lines[j]))

\* C10 amended: the street starts at preflop and at every line holding a
\* marker becomes the street of the first marker, in table order, the line
\* holds, forwards or backwards; each record carries the street current at
\* its line, so the tags never go backwards when the marker lines are in
\* street order.
C10_StreetFollowsLastMarker ==
  pc = "parsed" =>
    /\ \A k \in 1..Len(ret.actions) :
         LET M == {j \in 1..ret.actions[k].lineno : HasMarker(hand_lines[j])}
         IN  ret.actions[k].street =
               IF M = {} THEN "preflop" ELSE FirstMarkerStreet(hand_lines[Max(M)])
    /\ MarkersInOrder(hand_lines) => NonDecreasingStreets(ret.actions)

\* a returned hand whose tags go backwards after a line holding two markers
C10_Witness ==
  /\ pc = "parsed"
  /\ ret.hand # None
  /\ \E j \in 1..Len(ret.actions) : \E k \in 1..Len(ret.actions) :
       /\ j < k
       /\ StreetRank(ret.actions[j].street) > StreetRank(ret.actions[k].street)
       /\ \E i \in 1..ret.actions[j].lineno :
            Contains(hand_lines[i], "*** RIVER ***") /\ Contains(hand_lines[i], "*** TURN ***")

====
